---- MODULE Spec2Model ----
(***************************************************************************)
(* PerturbViz (perturbed-overlap-network.py): one run of main(), from the  *)
(* loading of the three inputs to the three outputs (primary image,        *)
(* labeled image, important-genes table); and one run of main() of the     *)
(* network generator (generate_string_network.py).  A behaviour is a run   *)
(* of one of the two programs.                                             *)
(*                                                                         *)
(* Genes are integers.  A fold-change is NaN or Num(v) with v an integer   *)
(* (the code's thresholds 1, -1 and 0 are integers, so the comparisons of  *)
(* the code are exact on these values).                                    *)
(***************************************************************************)
EXTENDS Integers, Sequences, FiniteSets, TLC

VARIABLES
    pc,               \* position of the run in main() / visualize_network()
    network_file,     \* content of the --network file
    G,                \* the graph: [nodes, edges]
    perturbed_genes,  \* the genes of --perturbed (a list that is only iterated
                      \* and tested for membership: kept as a set)
    degs_df,          \* the expression table, or None
    gene_categories,  \* node -> category, the result of categorize_genes
    fold_changes,     \* node -> fold-change, built in visualize_network
    draw_calls,       \* primary view: the draw_networkx_nodes calls, in order
    color_scale,      \* primary view: <<>> or <<[vmin, vmax]>> (with colorbar)
    nodes_to_label,   \* primary view: the labeled nodes
    top_fc_genes,     \* primary view: the table rows of head(10)
    primary_status,   \* "not_run", "saved" or "failed"
    labeled_scale,    \* labeled view: <<>> or <<[vmin, vmax]>> (with colorbar)
    labeled_status,   \* "not_run", "saved" or "failed"
    table,            \* rows written to <prefix>_important_genes.csv
    table_status,     \* "not_run", "saved", "KeyError" or "OSError"
    args_layout,      \* args.layout
    degs_file,        \* content of the --degs file
    pos,              \* the layout: the nodes with a coordinate and the call
                      \* that computed them
    warnings,         \* the warning and error messages printed so far
    label_texts,      \* primary view: labeled node -> label text
    labeled_texts,    \* labeled view: labeled node -> label text
    deg_genes,        \* generate_string_network: [up, down] of load_deg_genes
    network_df,       \* generate_string_network: result of get_string_network
    response,         \* generate_string_network: the answer of the STRING call
    output_file       \* generate_string_network: rows written to --output

vars == <<pc, network_file, G, perturbed_genes, degs_df, gene_categories,
          fold_changes, draw_calls, color_scale, nodes_to_label,
          top_fc_genes, primary_status, labeled_scale, labeled_status, table,
          table_status, args_layout, degs_file, pos, warnings, label_texts,
          labeled_texts, deg_genes, network_df, response,
                   output_file>>

----------------------------------------------------------------------------
(* Bounds of the inputs *)

MaxNodes == 3      \* nodes of a small network
MaxRows == 2       \* freely chosen rows of an expression table

(* Program constants *)

LabelAllLimit == 50   \* len(G.nodes()) <= 50: label all nodes
TopN == 10            \* .head(10)
SpringIterations == 50   \* spring_layout(..., iterations=50, ...)
SpringSeed == 42         \* spring_layout(..., seed=42)

----------------------------------------------------------------------------
(* Values *)

NaN == <<>>
Num(v) == <<v>>
isna(fc) == fc = NaN
abs(v) == IF v < 0 THEN -v ELSE v

Min2(a, b) == IF a <= b THEN a ELSE b
Max2(a, b) == IF a >= b THEN a ELSE b
SetMin(S) == CHOOSE x \in S : \A y \in S : x <= y
SetMax(S) == CHOOSE x \in S : \A y \in S : x >= y

Categories == {"perturbed", "up", "down", "other"}

----------------------------------------------------------------------------
(* Inputs *)

Path(n) == {{i, i + 1} : i \in 1..(n - 1)}

\* edge lists of the small networks: the path on 1..n (no edge for n < 2)
SmallEdgeLists == {Path(n) : n \in 0..MaxNodes}
\* edge lists of networks at and just above the label-all limit
LargeEdgeLists == {Path(n) : n \in LabelAllLimit..(LabelAllLimit + 1)}

NetworkFile(format, edges) == [format |-> format, edges |-> edges]

\* a file that cannot be parsed, and one with a single column
BadNetworkFiles == {NetworkFile(f, {}) : f \in {"unreadable", "one_column"}}

SmallNetworkFiles ==
    {NetworkFile("named", e) : e \in SmallEdgeLists}
        \cup {NetworkFile("positional", Path(2))}
        \cup BadNetworkFiles

LargeNetworkFiles == {NetworkFile("named", e) : e \in LargeEdgeLists}

IsLarge(graph) == Cardinality(graph.nodes) >= LabelAllLimit

Row(g, fc) == [gene |-> g, log2FC |-> fc]
TablesOf(rows) == UNION {[1..k -> rows] : k \in 0..MaxRows}

\* Gene 0 is in no network; 1 and 2 are in every network with an edge.  A row
\* of gene 0 is never looked up: it carries one value.
FreeTables ==
    TablesOf({Row(g, fc) : g \in {1, 2},
                           fc \in {NaN, Num(-2), Num(-1), Num(0), Num(1), Num(2)}}
                 \cup {Row(0, Num(2))})

\* With a large network the freely chosen rows are followed by a block of k
\* rows for the graph members 3..k+2, of fold-change 3, -4, 5, -6, ...
LargeFreeTables ==
    TablesOf({Row(g, fc) : g \in {1, 2}, fc \in {NaN, Num(-1), Num(0), Num(2)}}
                 \cup {Row(0, Num(2))})
Block(k) == [i \in 1..k |-> Row(i + 2, Num(IF i % 2 = 1 THEN i + 2 ELSE -(i + 2)))]
Blocks == {Block(k) : k \in (TopN - 1)..TopN}

\* args.layout: the choices of --layout, 'spring' being the default
Layouts == {"spring", "kamada_kawai", "circular", "spectral"}

\* The layout reads the graph only: the runs with a layout other than the
\* default take the tables of at most one row.
TableInputs(graph, layout) ==
    IF IsLarge(graph)
    THEN {t \o b : t \in LargeFreeTables, b \in Blocks}
    ELSE IF layout = "spring" THEN FreeTables
    ELSE {t \in FreeTables : Len(t) <= 1}

\* The --degs file: is it readable, the name of its second column, its rows
\* (gene and value of the second column).
DegsFile(readable, column, rows) ==
    [given |-> TRUE, readable |-> readable, column |-> column, rows |-> rows]
NoDegsFile == [given |-> FALSE, readable |-> FALSE, column |-> "", rows |-> <<>>]

\* an unreadable file, tables with a fold-change column under one of its
\* names, and one-row tables whose second column is something else
DegsFiles(graph, layout) ==
    {DegsFile(FALSE, "", <<>>)}
        \cup {DegsFile(TRUE, "log2FC", t) : t \in TableInputs(graph, layout)}
        \cup {DegsFile(TRUE, c, t) :
                 c \in {"log2FoldChange", "Log2 Fold Change", "baseMean"},
                 t \in {u \in FreeTables : Len(u) = 1}}
        \cup {DegsFile(TRUE, "", <<Row(g, NaN)>>) : g \in {0, 1, 2}}

PerturbedInputs(graph) ==
    IF IsLarge(graph) THEN {{}, {1}, {3}} ELSE SUBSET {0, 1, 2}

----------------------------------------------------------------------------
(* load_network *)

EmptyGraph == [nodes |-> {}, edges |-> {}]

\* nx.from_pandas_edgelist: every endpoint of an edge is a node
from_pandas_edgelist(edges) == [nodes |-> UNION edges, edges |-> edges]

LoadNetworkMessages(file) ==
    CASE file.format \in {"unreadable", "one_column"} ->
             {"Error loading network file"}
      [] file.format = "positional" ->
             {"Network file didn't have 'source' and 'target' columns. Using first two columns."}
      [] OTHER -> {}

LoadNetwork ==
    /\ pc = "load_network"
    /\ IF network_file.format \in {"unreadable", "one_column"}
       THEN /\ pc' = "exit"      \* except Exception: sys.exit(1)
            /\ G' = G
       ELSE /\ pc' = "load_gene_list"
            /\ G' = from_pandas_edgelist(network_file.edges)
    /\ warnings' = warnings \cup LoadNetworkMessages(network_file)
    /\ UNCHANGED <<network_file, perturbed_genes, degs_df, gene_categories,
                   fold_changes, draw_calls, color_scale, nodes_to_label,
                   top_fc_genes, primary_status, labeled_scale, labeled_status,
                   table, table_status,
                   args_layout, degs_file, pos, label_texts,
                   labeled_texts, deg_genes, network_df, response,
                   output_file>>

(* load_gene_list: a comma-separated list, a readable file, or sys.exit(1) *)

LoadGeneList ==
    /\ pc = "load_gene_list"
    /\ \/ \E genes \in PerturbedInputs(G) :
              /\ perturbed_genes' = genes
              /\ pc' = "load_degs"
              /\ warnings' = warnings
       \/ /\ pc' = "exit"
          /\ warnings' = warnings \cup {"Error reading gene file"}
          /\ UNCHANGED perturbed_genes
    /\ UNCHANGED <<network_file, G, degs_df, gene_categories,
                   fold_changes, draw_calls, color_scale, nodes_to_label,
                   top_fc_genes, primary_status, labeled_scale, labeled_status,
                   table, table_status,
                   args_layout, degs_file, pos, label_texts,
                   labeled_texts, deg_genes, network_df, response,
                   output_file>>

(* load_degs *)

None == [none |-> TRUE, has_log2FC |-> FALSE, rows |-> <<>>]
DataFrame(has_fc, rows) == [none |-> FALSE, has_log2FC |-> has_fc, rows |-> rows]

\* a table without a fold-change column: its rows carry a gene only
WithoutFC(rows) == [i \in 1..Len(rows) |-> Row(rows[i].gene, NaN)]

\* mutant: a file that cannot be read is treated like a missing --degs
load_degs_unrecovered(readable, has_fc, rows) ==
    IF ~readable
    THEN None
    ELSE IF has_fc THEN DataFrame(TRUE, rows)
         ELSE DataFrame(FALSE, WithoutFC(rows))

load_degs(readable, has_fc, rows) ==
    IF ~readable
    THEN DataFrame(TRUE, <<>>)      \* pd.DataFrame(columns=['gene', 'log2FC'])
    ELSE IF has_fc THEN DataFrame(TRUE, rows)
         ELSE DataFrame(FALSE, WithoutFC(rows))

\* mutant: without a fold-change column the second column is taken for it
HasLog2FCPositional(column) == TRUE

\* is there a 'log2FC' column after the renaming of 'log2FoldChange' and the
\* search for a column whose name contains 'log2' and 'fold'
HasLog2FC(column) == column \in {"log2FC", "log2FoldChange", "Log2 Fold Change"}

LoadDegsMessages(file) ==
    IF ~file.readable
    THEN {"Error loading DEG file",
          "DEG file loading failed. Creating minimal DEG dataframe."}
    ELSE IF ~HasLog2FC(file.column)
    THEN {"Warning: No log2 fold change column found in DEG file"}
    ELSE {}

LoadDegs ==
    /\ pc = "load_degs"
    /\ \/ /\ degs_file' = NoDegsFile            \* no --degs argument
          /\ degs_df' = None
          /\ warnings' = warnings
       \/ \E file \in DegsFiles(G, args_layout) :
              /\ degs_file' = file
              /\ degs_df' = load_degs(file.readable, HasLog2FC(file.column),
                                      file.rows)
              /\ warnings' = warnings \cup LoadDegsMessages(file)
    /\ pc' = "categorize"
    /\ UNCHANGED <<network_file, G, perturbed_genes, gene_categories,
                   fold_changes, draw_calls, color_scale, nodes_to_label,
                   top_fc_genes, primary_status, labeled_scale, labeled_status,
                   table, table_status,
                   args_layout, pos, label_texts, labeled_texts,
                   deg_genes, network_df, response,
                   output_file>>

----------------------------------------------------------------------------
(* categorize_genes *)

\* dict(zip(degs_df['gene'], degs_df['log2FC'])): a later row replaces an
\* earlier one of the same gene
\* mutant: the first row of a gene is kept
RECURSIVE DictZipFirstWins(_)
DictZipFirstWins(rows) ==
    IF rows = <<>> THEN <<>>
    ELSE LET n == Len(rows)
             d == DictZipFirstWins(SubSeq(rows, 1, n - 1))
             r == rows[n]
         IN [g \in DOMAIN d \cup {r.gene} |->
                 IF g \in DOMAIN d THEN d[g] ELSE r.log2FC]

RECURSIVE DictZip(_)
DictZip(rows) ==
    IF rows = <<>> THEN <<>>
    ELSE LET n == Len(rows)
             d == DictZip(SubSeq(rows, 1, n - 1))
             r == rows[n]
         IN [g \in DOMAIN d \cup {r.gene} |->
                 IF g = r.gene THEN r.log2FC ELSE d[g]]

\* for node in G.nodes(): gene_categories[node] = 'other'
InitCategories(graph) == [n \in graph.nodes |-> "other"]

\* mutant: without the test "if gene in G.nodes()"
MarkPerturbedAnyGene(cats, perturbed) ==
    [n \in DOMAIN cats \cup perturbed |->
        IF n \in perturbed THEN "perturbed" ELSE cats[n]]

\* for gene in perturbed_genes: if gene in G.nodes(): 'perturbed'
MarkPerturbed(cats, perturbed) ==
    [n \in DOMAIN cats |-> IF n \in perturbed THEN "perturbed" ELSE cats[n]]

\* mutant: without the test "gene not in perturbed_genes"
ExpressionAppliesToPerturbed(gene, gene_to_fc, perturbed) ==
    gene \in DOMAIN gene_to_fc

\* is this node looked at by the up/down loop
ExpressionApplies(gene, gene_to_fc, perturbed) ==
    gene \in DOMAIN gene_to_fc /\ gene \notin perturbed

\* mutant: the thresholds are inclusive
ClassifyInclusive(fc, current) ==
    IF isna(fc) THEN current
    ELSE IF fc[1] >= 1 THEN "up"
    ELSE IF fc[1] <= -1 THEN "down"
    ELSE current

\* fc > 1: 'up'; fc < -1: 'down'; otherwise the category is left as it is
Classify(fc, current) ==
    IF isna(fc) THEN current
    ELSE IF fc[1] > 1 THEN "up"
    ELSE IF fc[1] < -1 THEN "down"
    ELSE current

MarkExpression(cats, perturbed, df) ==
    IF ~df.none /\ df.has_log2FC
    THEN LET gene_to_fc == DictZip(df.rows)
         IN [n \in DOMAIN cats |->
                IF ExpressionApplies(n, gene_to_fc, perturbed)
                THEN Classify(gene_to_fc[n], cats[n])
                ELSE cats[n]]
    ELSE cats

categorize_genes(perturbed, df, graph) ==
    MarkExpression(MarkPerturbed(InitCategories(graph), perturbed), perturbed, df)

CategorizeGenes ==
    /\ pc = "categorize"
    /\ gene_categories' = categorize_genes(perturbed_genes, degs_df, G)
    /\ pc' = "visualize"
    /\ UNCHANGED <<network_file, G, perturbed_genes, degs_df,
                   fold_changes, draw_calls, color_scale, nodes_to_label,
                   top_fc_genes, primary_status, labeled_scale, labeled_status,
                   table, table_status,
                   args_layout, degs_file, pos, warnings,
                   label_texts, labeled_texts, deg_genes, network_df, response,
                   output_file>>

----------------------------------------------------------------------------
(* visualize_network, up to the savefig of the primary image *)

\* fold_changes: the nodes with a non-missing entry in fc_dict
FoldChangeNodes(graph, fc_dict) ==
    {n \in graph.nodes : n \in DOMAIN fc_dict /\ ~isna(fc_dict[n])}

FoldChanges(graph, df) ==
    IF ~df.none /\ df.has_log2FC
    THEN LET fc_dict == DictZip(df.rows)
         IN [n \in FoldChangeNodes(graph, fc_dict) |-> fc_dict[n][1]]
    ELSE <<>>

\* node_categories[category]
NodesOf(cats, category) == {n \in DOMAIN cats : cats[n] = category}

ImportantNodes(cats) ==
    NodesOf(cats, "perturbed") \cup NodesOf(cats, "up") \cup NodesOf(cats, "down")

\* mutant: the domain is that of the observed values
ColorDomainObserved(values) ==
    [vmin |-> SetMin(values), vmax |-> SetMax(values)]

\* vmin = min(min(perturbed_fc), -1); vmax = max(max(perturbed_fc), 1)
ColorDomain(values) ==
    [vmin |-> Min2(SetMin(values), -1), vmax |-> Max2(SetMax(values), 1)]

\* the perturbed nodes that have a fold-change (valid_perturbed)
ValidPerturbed(cats, fcs) == NodesOf(cats, "perturbed") \cap DOMAIN fcs

Draw(category, nodelist, color) ==
    [category |-> category, nodelist |-> nodelist, color |-> color]

DrawIfAny(cats, category, color) ==
    IF NodesOf(cats, category) # {}
    THEN <<Draw(category, NodesOf(cats, category), color)>>
    ELSE <<>>

\* mutant: the perturbed nodes are always drawn through the colormap
DrawPerturbedMapped(cats, fcs) ==
    <<Draw("perturbed", ValidPerturbed(cats, fcs), "RdBu_r")>>

\* The draw call of the perturbed nodes.  (The except branch of the colormap
\* code is entered only when a matplotlib call raises; it draws as the else
\* branch does.  No input of the model makes these calls raise.)
DrawPerturbed(cats, fcs) ==
    IF NodesOf(cats, "perturbed") # {} /\ DOMAIN fcs # {}
            /\ ValidPerturbed(cats, fcs) # {}
    THEN <<Draw("perturbed", ValidPerturbed(cats, fcs), "RdBu_r")>>
    ELSE <<Draw("perturbed", NodesOf(cats, "perturbed"), "purple")>>

PrimaryDrawCalls(cats, fcs) ==
    DrawIfAny(cats, "other", "lightgray") \o DrawIfAny(cats, "down", "blue")
        \o DrawIfAny(cats, "up", "red") \o DrawPerturbed(cats, fcs)

\* the colorbar of the primary view and its domain
PrimaryColorScale(cats, fcs) ==
    IF NodesOf(cats, "perturbed") # {} /\ DOMAIN fcs # {}
            /\ ValidPerturbed(cats, fcs) # {}
    THEN <<ColorDomain({fcs[g] : g \in ValidPerturbed(cats, fcs)})>>
    ELSE <<>>

\* mutant: the rows are sorted by the signed fold-change
SignedKey(row) == IF isna(row.log2FC) THEN -1 ELSE row.log2FC[1]

\* degs_df['abs_log2FC']: the sort key of a row, missing values last
AbsKey(row) == IF isna(row.log2FC) THEN -1 ELSE abs(row.log2FC[1])

\* the rows kept by top_fc_genes['gene'].isin(genes_in_network)
MemberRows(graph, rows) == {i \in 1..Len(rows) : rows[i].gene \in graph.nodes}

\* sort_values('abs_log2FC', ascending=False) ... .head(10): every set of rows
\* the sort can put first (the sort is not stable: rows of equal key come in
\* any order)
HeadChoices(graph, rows) ==
    LET members == MemberRows(graph, rows)
        Above(k) == {i \in members : AbsKey(rows[i]) > k}
        At(k) == {i \in members : AbsKey(rows[i]) = k}
    IN IF Cardinality(members) <= TopN THEN {members}
       ELSE LET cut == CHOOSE k \in {AbsKey(rows[i]) : i \in members} :
                           /\ Cardinality(Above(k)) < TopN
                           /\ Cardinality(Above(k)) + Cardinality(At(k)) >= TopN
            IN {Above(cut) \cup t : t \in
                   {s \in SUBSET At(cut) :
                        Cardinality(s) = TopN - Cardinality(Above(cut))}}

\* does the label selection look at the expression table
UsesTopRows(graph, df) ==
    Cardinality(graph.nodes) > LabelAllLimit /\ ~df.none /\ df.has_log2FC

\* mutant: a network of exactly 50 nodes is treated as a larger one
LabelAllBelowLimit(graph) == Cardinality(graph.nodes) < LabelAllLimit

\* len(G.nodes()) <= 50
LabelAll(graph) == Cardinality(graph.nodes) <= LabelAllLimit

\* nodes_to_label, given the rows of head(10)
NodesToLabel(graph, cats, rows, top) ==
    IF LabelAll(graph) THEN graph.nodes
    ELSE ImportantNodes(cats) \cup {rows[i].gene : i \in top}

\* A layout is a dict node -> coordinate: its keys, the networkx function that
\* computed it and the keyword arguments of the call.
Layout(graph, fn, params) == [nodes |-> graph.nodes, fn |-> fn, params |-> params]

\* nx.spring_layout(G, k=0.3, iterations=50, seed=42)
spring_layout(graph, k, iterations, seed) ==
    Layout(graph, "spring_layout",
           <<[k |-> k, iterations |-> iterations, seed |-> seed]>>)

DefaultLayout(graph) == spring_layout(graph, "0.3", SpringIterations, SpringSeed)

\* mutant: the fallback draws a fresh random layout of the default length
FallbackLayoutUnseeded(graph) == Layout(graph, "spring_layout", <<>>)

\* the spring_layout call of the two except branches
FallbackLayout(graph) == spring_layout(graph, "0.3", SpringIterations, SpringSeed)

\* the layouts computed inside try/except
CanFallBack(layout) == layout \in {"kamada_kawai", "spectral"}

\* pos, given whether the call of the chosen algorithm raises
ComputeLayout(layout, graph, raises) ==
    CASE layout = "spring" -> DefaultLayout(graph)
      [] layout = "circular" -> Layout(graph, "circular_layout", <<>>)
      [] layout = "kamada_kawai" ->
             IF raises THEN FallbackLayout(graph)
             ELSE Layout(graph, "kamada_kawai_layout", <<>>)
      [] layout = "spectral" ->
             IF raises THEN FallbackLayout(graph)
             ELSE Layout(graph, "spectral_layout", <<>>)

LayoutMessages(layout, raises) ==
    CASE layout = "kamada_kawai" /\ raises ->
             {"Kamada-Kawai layout failed, falling back to spring layout"}
      [] layout = "spectral" /\ raises ->
             {"Spectral layout failed, falling back to spring layout"}
      [] OTHER -> {}

\* f"{abs(fc):.2f}": the number with two decimals, kept in hundredths
Format2f(v) == 100 * v

\* direction = "↑" if fc > 0 else "↓"
Direction(fc) == IF fc > 0 THEN "up_arrow" ELSE "down_arrow"

\* label_text: the node alone, or f"{node}\n{direction}{abs(fc):.2f}"
LabelText(node, fcs) ==
    IF node \in DOMAIN fcs
    THEN [id |-> node, direction |-> Direction(fcs[node]),
          value |-> <<Format2f(abs(fcs[node]))>>]
    ELSE [id |-> node, direction |-> "", value |-> <<>>]

\* the labels of a view: nodes without a position are skipped
LabelTexts(nodes, layout, fcs) ==
    [n \in nodes \cap layout.nodes |-> LabelText(n, fcs)]

VisualizePrimary ==
    /\ pc = "visualize"
    /\ \E raises \in (IF CanFallBack(args_layout) THEN BOOLEAN ELSE {FALSE}) :
          /\ pos' = ComputeLayout(args_layout, G, raises)
          /\ warnings' = warnings \cup LayoutMessages(args_layout, raises)
    /\ fold_changes' = FoldChanges(G, degs_df)
    /\ draw_calls' = PrimaryDrawCalls(gene_categories, fold_changes')
    /\ color_scale' = PrimaryColorScale(gene_categories, fold_changes')
    /\ \E top \in (IF UsesTopRows(G, degs_df) THEN HeadChoices(G, degs_df.rows)
                   ELSE {{}}) :
          /\ top_fc_genes' = top
          /\ nodes_to_label' = NodesToLabel(G, gene_categories, degs_df.rows, top)
    /\ label_texts' = LabelTexts(nodes_to_label', pos', fold_changes')
    /\ \/ /\ primary_status' = "saved"       \* plt.savefig(output_file)
          /\ pc' = "labeled"
       \/ /\ primary_status' = "failed"      \* savefig raises: not caught
          /\ pc' = "crash"
    /\ UNCHANGED <<network_file, G, perturbed_genes, degs_df, gene_categories,
                   labeled_scale, labeled_status, table, table_status,
                   args_layout, degs_file, labeled_texts, deg_genes,
                   network_df, response,
                   output_file>>

----------------------------------------------------------------------------
(* create_labeled_network, up to the savefig of the labeled image *)

LabeledColorScale(cats, fcs) ==
    IF NodesOf(cats, "perturbed") # {} /\ DOMAIN fcs # {}
            /\ ValidPerturbed(cats, fcs) # {}
    THEN <<ColorDomain({fcs[g] : g \in ValidPerturbed(cats, fcs)})>>
    ELSE <<>>

\* mutant: create_gene_table is called by visualize_network after the
\* try/except of the labeled view
CreateLabeledNetworkThenTable ==
    /\ pc = "labeled"
    /\ \/ /\ labeled_scale' = LabeledColorScale(gene_categories, fold_changes)
          /\ labeled_texts' =
                 LabelTexts(ImportantNodes(gene_categories), pos, fold_changes)
          /\ labeled_status' = "saved"
          /\ warnings' = warnings
       \/ /\ labeled_scale' = labeled_scale
          /\ labeled_texts' = labeled_texts
          /\ labeled_status' = "failed"
          /\ warnings' = warnings \cup {"Warning: Could not create labeled network"}
    /\ pc' = "table"
    /\ UNCHANGED <<network_file, G, perturbed_genes, degs_df, gene_categories,
                   fold_changes, draw_calls, color_scale, nodes_to_label,
                   top_fc_genes, primary_status, table, table_status,
                   args_layout, degs_file, pos, label_texts,
                   deg_genes, network_df, response,
                   output_file>>

\* mutant: the call is not inside try/except
CreateLabeledNetworkUncaught ==
    /\ pc = "labeled"
    /\ \/ /\ labeled_scale' = LabeledColorScale(gene_categories, fold_changes)
          /\ labeled_texts' =
                 LabelTexts(ImportantNodes(gene_categories), pos, fold_changes)
          /\ labeled_status' = "saved"
          /\ pc' = "table"
          /\ warnings' = warnings
       \/ /\ labeled_scale' = labeled_scale
          /\ labeled_texts' = labeled_texts
          /\ labeled_status' = "failed"
          /\ pc' = "crash"
          /\ warnings' = warnings
    /\ UNCHANGED <<network_file, G, perturbed_genes, degs_df, gene_categories,
                   fold_changes, draw_calls, color_scale, nodes_to_label,
                   top_fc_genes, primary_status, table, table_status,
                   args_layout, degs_file, pos, label_texts,
                   deg_genes, network_df, response,
                   output_file>>

\* An exception of the labeled view is caught in visualize_network, which goes
\* on to plt.close('all'); create_gene_table is the last call of the view.
CreateLabeledNetwork ==
    /\ pc = "labeled"
    /\ \/ /\ labeled_scale' = LabeledColorScale(gene_categories, fold_changes)
          /\ labeled_texts' =
                 LabelTexts(ImportantNodes(gene_categories), pos, fold_changes)
          /\ labeled_status' = "saved"
          /\ pc' = "table"
          /\ warnings' = warnings
       \/ /\ labeled_scale' = labeled_scale
          /\ labeled_texts' = labeled_texts
          /\ labeled_status' = "failed"      \* a drawing call or savefig raises
          /\ pc' = "close"
          /\ warnings' = warnings \cup {"Warning: Could not create labeled network"}
    /\ UNCHANGED <<network_file, G, perturbed_genes, degs_df, gene_categories,
                   fold_changes, draw_calls, color_scale, nodes_to_label,
                   top_fc_genes, primary_status, table, table_status,
                   args_layout, degs_file, pos, label_texts,
                   deg_genes, network_df, response,
                   output_file>>

----------------------------------------------------------------------------
(* create_gene_table *)

\* G.degree(gene): a self-loop counts twice
Degree(graph, n) ==
    Cardinality({e \in graph.edges : n \in e})
        + Cardinality({e \in graph.edges : e = {n}})

\* nx.degree_centrality: 1 for every node of a graph of at most one node,
\* degree / (n - 1) otherwise; kept as a fraction
DegreeCentrality(graph, n) ==
    IF Cardinality(graph.nodes) <= 1 THEN [num |-> 1, den |-> 1]
    ELSE [num |-> Degree(graph, n), den |-> Cardinality(graph.nodes) - 1]

FractionGreater(a, b) == a.num * b.den > b.num * a.den

\* one row of table_data (the betweenness column is not modelled: no sort key
\* and no row selection reads it); log2FC is NaN for the placeholder 'NA'
TableRow(graph, cats, fcs, gene) ==
    [Gene |-> gene,
     Category |-> cats[gene],
     Degree |-> Degree(graph, gene),
     Centrality |-> DegreeCentrality(graph, gene),
     log2FC |-> IF gene \in DOMAIN fcs THEN Num(fcs[gene]) ELSE NaN]

\* the genes of a set in the order of gene_categories.items(), which is the
\* order of G.nodes(): the node ids of the edge lists appear in increasing order
RECURSIVE InNodeOrder(_)
InNodeOrder(S) ==
    IF S = {} THEN <<>>
    ELSE LET m == SetMin(S) IN <<m>> \o InNodeOrder(S \ {m})

TableData(graph, cats, fcs) ==
    LET genes == InNodeOrder(ImportantNodes(cats))
    IN [i \in 1..Len(genes) |-> TableRow(graph, cats, fcs, genes[i])]

\* not all(table_df['log2FC'] == 'NA')
AnyKnownFC(rows) == \E i \in 1..Len(rows) : ~isna(rows[i].log2FC)

\* the order of the strings 'down' < 'perturbed' < 'up'
CategoryRank(category) ==
    CASE category = "down" -> 1
      [] category = "other" -> 2
      [] category = "perturbed" -> 3
      [] category = "up" -> 4

\* mutant: the fold-change column is sorted in ascending order
BeforeByFCAscending(a, b) ==
    \/ CategoryRank(a.Category) < CategoryRank(b.Category)
    \/ /\ a.Category = b.Category
       /\ ~isna(a.log2FC)
       /\ isna(b.log2FC) \/ a.log2FC[1] < b.log2FC[1]

\* sort_values(['Category', 'log2FC_num'], ascending=[True, False]):
\* does row a come strictly before row b (missing values last)
BeforeByFC(a, b) ==
    \/ CategoryRank(a.Category) < CategoryRank(b.Category)
    \/ /\ a.Category = b.Category
       /\ ~isna(a.log2FC)
       /\ isna(b.log2FC) \/ a.log2FC[1] > b.log2FC[1]

\* sort_values(['Category', 'Centrality'], ascending=[True, False])
BeforeByCentrality(a, b) ==
    \/ CategoryRank(a.Category) < CategoryRank(b.Category)
    \/ /\ a.Category = b.Category
       /\ FractionGreater(a.Centrality, b.Centrality)

Before(by_fc, a, b) == IF by_fc THEN BeforeByFC(a, b) ELSE BeforeByCentrality(a, b)

\* the sort of several columns is stable: a row goes behind the rows it does
\* not come strictly before
RECURSIVE InsertRow(_, _, _)
InsertRow(sorted, r, by_fc) ==
    IF sorted = <<>> THEN <<r>>
    ELSE LET n == Len(sorted)
         IN IF Before(by_fc, r, sorted[n])
            THEN InsertRow(SubSeq(sorted, 1, n - 1), r, by_fc) \o <<sorted[n]>>
            ELSE sorted \o <<r>>

RECURSIVE SortRows(_, _)
SortRows(rows, by_fc) ==
    IF rows = <<>> THEN <<>>
    ELSE InsertRow(SortRows(SubSeq(rows, 1, Len(rows) - 1), by_fc),
                   rows[Len(rows)], by_fc)

SortedTable(rows) == SortRows(rows, AnyKnownFC(rows))

\* Without important genes pd.DataFrame([]) has no column, and
\* sort_values(['Category', 'Centrality']) raises KeyError.  Every exception
\* of create_gene_table is caught in create_gene_table.
CreateGeneTable ==
    /\ pc = "table"
    /\ LET rows == TableData(G, gene_categories, fold_changes)
       IN IF rows = <<>>
          THEN /\ table_status' = "KeyError"
               /\ table' = table
               /\ warnings' = warnings \cup {"Warning: Could not create gene table"}
          ELSE \/ /\ table_status' = "saved"       \* table_df.to_csv
                  /\ table' = SortedTable(rows)
                  /\ warnings' = warnings
               \/ /\ table_status' = "OSError"     \* to_csv raises
                  /\ table' = table
                  /\ warnings' = warnings \cup {"Warning: Could not create gene table"}
    /\ pc' = "close"
    /\ UNCHANGED <<network_file, G, perturbed_genes, degs_df, gene_categories,
                   fold_changes, draw_calls, color_scale, nodes_to_label,
                   top_fc_genes, primary_status, labeled_scale, labeled_status,
                   args_layout, degs_file, pos, label_texts,
                   labeled_texts, deg_genes, network_df, response,
                   output_file>>

\* plt.close('all'); print("Visualization complete!")
Close ==
    /\ pc = "close"
    /\ pc' = "done"
    /\ UNCHANGED <<network_file, G, perturbed_genes, degs_df, gene_categories,
                   fold_changes, draw_calls, color_scale, nodes_to_label,
                   top_fc_genes, primary_status, labeled_scale, labeled_status,
                   table, table_status,
                   args_layout, degs_file, pos, warnings,
                   label_texts, labeled_texts, deg_genes, network_df, response,
                   output_file>>

----------------------------------------------------------------------------
(* generate_string_network.py: one run of main() *)

GenTopN == 10         \* load_deg_genes(deg_file, top_n=10)
HttpOk == 200         \* response.status_code != 200

\* --genes of the generator
GenGeneInputs == SUBSET {1, 2}

\* the rows of the generator's tables: the test of load_deg_genes is the sign
GenTables ==
    TablesOf({Row(g, fc) : g \in {1, 2}, fc \in {NaN, Num(-1), Num(0), Num(2)}})

\* --degs of the generator: an unreadable file, a one-column file, tables with
\* the columns 'gene' and 'log2FC', one-row tables with two columns of other
\* names, and one whose second column holds text
GenDegsFiles ==
    {DegsFile(FALSE, "", <<>>), DegsFile(TRUE, "", <<Row(1, NaN)>>),
     DegsFile(TRUE, "text", <<Row(1, NaN)>>)}
        \cup {DegsFile(TRUE, "log2FC", t) : t \in GenTables}
        \cup {DegsFile(TRUE, "log2FoldChange", t) :
                 t \in {u \in GenTables : Len(u) = 1}}

\* sorted_df[cond].head(top_n): every set of rows the unstable sort can put
\* first among the rows of members
TopRows(rows, members, n) ==
    LET Above(k) == {i \in members : AbsKey(rows[i]) > k}
        At(k) == {i \in members : AbsKey(rows[i]) = k}
    IN IF Cardinality(members) <= n THEN {members}
       ELSE LET cut == CHOOSE k \in {AbsKey(rows[i]) : i \in members} :
                           /\ Cardinality(Above(k)) < n
                           /\ Cardinality(Above(k)) + Cardinality(At(k)) >= n
            IN {Above(cut) \cup t : t \in
                   {u \in SUBSET At(cut) : Cardinality(u) = n - Cardinality(Above(cut))}}

UpRows(rows) ==
    {i \in 1..Len(rows) : ~isna(rows[i].log2FC) /\ rows[i].log2FC[1] > 0}
DownRows(rows) ==
    {i \in 1..Len(rows) : ~isna(rows[i].log2FC) /\ rows[i].log2FC[1] < 0}

NoDegGenes == [up |-> {}, down |-> {}]

\* the results load_deg_genes can return (the two lists are only joined into
\* a set and counted: kept as sets)
load_deg_genes(file) ==
    IF ~file.readable \/ file.column \in {"", "text"}
    THEN {NoDegGenes}       \* return [], []
    ELSE {[up |-> {file.rows[i].gene : i \in u},
           down |-> {file.rows[i].gene : i \in d}] :
              u \in TopRows(file.rows, UpRows(file.rows), GenTopN),
              d \in TopRows(file.rows, DownRows(file.rows), GenTopN)}

LoadDegGenesMessages(file) ==
    CASE ~file.readable -> {"Error loading DEG file"}
      [] file.column = "" -> {"Error: DEG file must have at least two columns"}
      [] file.column = "text" ->
             {"Warning: Renamed columns to 'gene' and 'log2FC'",
              "Error loading DEG file"}
      [] file.column = "log2FC" -> {}
      [] OTHER -> {"Warning: Renamed columns to 'gene' and 'log2FC'"}

\* The answer of requests.post: the call raises, or returns a status code and
\* a body that is unparsable, lacks the preferredName columns, or holds rows.
Response(raises, status, body, rows) ==
    [raises |-> raises, status |-> status, body |-> body, rows |-> rows]
NoResponse == Response(FALSE, 0, "", <<>>)

EdgeRows(n) == [i \in 1..(n - 1) |-> [source |-> i, target |-> i + 1]]

Responses ==
    {Response(TRUE, 0, "", <<>>)}
        \cup {Response(FALSE, st, "unparsable", <<>>) : st \in {HttpOk, 500}}
        \cup {Response(FALSE, st, "other_columns", EdgeRows(2)) : st \in {HttpOk, 500}}
        \cup {Response(FALSE, st, "interactions", EdgeRows(n)) :
                 st \in {HttpOk, 500}, n \in 1..MaxNodes}

\* network_df: None, or a DataFrame of source/target rows
NoNetwork == <<>>
NetworkFrame(rows) == <<rows>>

\* mutant: the status code of the answer is not looked at
get_string_network_any_status(resp) ==
    IF resp.raises THEN NoNetwork
    ELSE IF resp.body # "interactions" THEN NoNetwork
    ELSE IF resp.rows = <<>> THEN NoNetwork
    ELSE NetworkFrame(resp.rows)

get_string_network(resp) ==
    IF resp.raises THEN NoNetwork               \* except RequestException
    ELSE IF resp.status # HttpOk THEN NoNetwork
    ELSE IF resp.body # "interactions" THEN NoNetwork   \* except Exception
    ELSE IF resp.rows = <<>> THEN NoNetwork     \* network_data.empty
    ELSE NetworkFrame(resp.rows)

GetStringNetworkMessages(resp) ==
    CASE resp.raises -> {"Error connecting to STRING database"}
      [] resp.status # HttpOk -> {"Error: HTTP Status Code"}
      [] resp.body # "interactions" -> {"Unexpected error"}
      [] resp.rows = <<>> -> {"No interactions found for the provided genes."}
      [] OTHER -> {}

\* network_df is None or len(network_df) == 0
RetrievalFailed(df) == df = NoNetwork \/ df[1] = <<>>

genVars == <<deg_genes, network_df, response, output_file>>

vizVars == <<network_file, G, degs_df, gene_categories, fold_changes,
             draw_calls, color_scale, nodes_to_label, top_fc_genes,
             primary_status, labeled_scale, labeled_status, table,
             table_status, args_layout, pos, label_texts, labeled_texts>>

\* perturbed_genes = load_gene_list(args.genes)
GenLoadGeneList ==
    /\ pc = "gen_load_gene_list"
    /\ \/ \E genes \in GenGeneInputs :
              /\ perturbed_genes' = genes
              /\ pc' = "gen_load_degs"
              /\ warnings' = warnings
       \/ /\ pc' = "gen_exit"                 \* sys.exit(1)
          /\ warnings' = warnings \cup {"Error reading gene file"}
          /\ UNCHANGED perturbed_genes
    /\ UNCHANGED <<vizVars, genVars, degs_file>>

\* if args.degs: up_genes, down_genes = load_deg_genes(args.degs)
LoadDegGenes ==
    /\ pc = "gen_load_degs"
    /\ \/ /\ degs_file' = NoDegsFile
          /\ deg_genes' = NoDegGenes
          /\ warnings' = warnings
       \/ \E file \in GenDegsFiles :
              /\ degs_file' = file
              /\ deg_genes' \in load_deg_genes(file)
              /\ warnings' = warnings \cup LoadDegGenesMessages(file)
    /\ pc' = "gen_retrieve"
    /\ UNCHANGED <<vizVars, perturbed_genes, network_df, response, output_file>>

\* network_df = get_string_network(all_genes, ...), and the test on it
GetStringNetwork ==
    /\ pc = "gen_retrieve"
    /\ \E resp \in Responses :
          /\ response' = resp
          /\ network_df' = get_string_network(resp)
          /\ warnings' = warnings \cup GetStringNetworkMessages(resp)
                 \cup (IF RetrievalFailed(network_df')
                       THEN {"Failed to retrieve network or no interactions found."}
                       ELSE {})
    /\ pc' = IF RetrievalFailed(network_df') THEN "gen_exit" ELSE "gen_save"
    /\ UNCHANGED <<vizVars, perturbed_genes, degs_file, deg_genes, output_file>>

\* network_df.to_csv(args.output, sep='\t', index=False)
SaveNetwork ==
    /\ pc = "gen_save"
    /\ \/ /\ output_file' = network_df
          /\ pc' = "gen_done"
          /\ warnings' = warnings
       \/ /\ output_file' = output_file        \* to_csv raises: sys.exit(1)
          /\ pc' = "gen_exit"
          /\ warnings' = warnings \cup {"Error saving network file"}
    /\ UNCHANGED <<vizVars, perturbed_genes, degs_file, deg_genes, network_df,
                   response>>

----------------------------------------------------------------------------

NoLayout == [nodes |-> {}, fn |-> "", params |-> <<>>]

\* the start of a run of PerturbViz, or of a run of the network generator
InitWith(files, layouts) ==
    /\ \/ /\ pc = "load_network"
          /\ network_file \in files
          /\ args_layout \in layouts
       \/ /\ pc = "gen_load_gene_list"
          /\ network_file = NetworkFile("", {})
          /\ args_layout = "spring"
    /\ degs_file = NoDegsFile
    /\ pos = NoLayout
    /\ warnings = {}
    /\ label_texts = <<>>
    /\ labeled_texts = <<>>
    /\ deg_genes = [up |-> {}, down |-> {}]
    /\ network_df = NoNetwork
    /\ response = NoResponse
    /\ output_file = <<>>
    /\ G = EmptyGraph
    /\ perturbed_genes = {}
    /\ degs_df = None
    /\ gene_categories = <<>>
    /\ fold_changes = <<>>
    /\ draw_calls = <<>>
    /\ color_scale = <<>>
    /\ nodes_to_label = {}
    /\ top_fc_genes = {}
    /\ primary_status = "not_run"
    /\ labeled_scale = <<>>
    /\ labeled_status = "not_run"
    /\ table = <<>>
    /\ table_status = "not_run"

Init == InitWith(SmallNetworkFiles, Layouts)
InitLarge == InitWith(LargeNetworkFiles, {"spring"})

Next ==
    \/ LoadNetwork
    \/ LoadGeneList
    \/ LoadDegs
    \/ CategorizeGenes
    \/ VisualizePrimary
    \/ CreateLabeledNetwork
    \/ CreateGeneTable
    \/ Close
    \/ GenLoadGeneList
    \/ LoadDegGenes
    \/ GetStringNetwork
    \/ SaveNetwork

Spec == Init /\ [][Next]_vars
SpecLarge == InitLarge /\ [][Next]_vars

----------------------------------------------------------------------------
(* The claims.  They state the results on the inputs directly, without the *)
(* operators of the model above.                                           *)

Categorized == pc \in {"visualize", "labeled", "crash", "table", "close", "done"}
AfterPrimary == pc \in {"labeled", "crash", "table", "close", "done"}

TableUsable == ~degs_df.none /\ degs_df.has_log2FC
HasRow(g) == \E i \in 1..Len(degs_df.rows) : degs_df.rows[i].gene = g
LastRow(g) ==
    CHOOSE i \in 1..Len(degs_df.rows) :
        /\ degs_df.rows[i].gene = g
        /\ \A j \in (i + 1)..Len(degs_df.rows) : degs_df.rows[j].gene # g
\* the fold-change the table gives for a gene: that of its last row
TableFC(g) ==
    IF TableUsable /\ HasRow(g) THEN degs_df.rows[LastRow(g)].log2FC ELSE NaN
PerturbedNodes == perturbed_genes \cap G.nodes
Important == {n \in G.nodes : gene_categories[n] \in {"perturbed", "up", "down"}}

\* C1: a perturbed gene that is a graph node has category 'perturbed' in the
\* result of categorize_genes, whatever its fold-change is.
C1_PerturbedPrecedence ==
    Categorized => \A g \in PerturbedNodes : gene_categories[g] = "perturbed"

C1_Witness ==
    /\ Categorized
    /\ \E g \in PerturbedNodes :
          /\ ~isna(TableFC(g)) /\ TableFC(g)[1] > 1
          /\ gene_categories[g] = "perturbed"
    /\ \E g \in PerturbedNodes :
          /\ ~isna(TableFC(g)) /\ TableFC(g)[1] < -1
          /\ gene_categories[g] = "perturbed"

\* C2: the category map has exactly the graph's nodes as its domain, every
\* node has one of the four categories, and genes of the perturbed list or of
\* the table that are no graph nodes raise no error and add no key.
C2_CategoryMapTotal ==
    /\ Categorized =>
          /\ DOMAIN gene_categories = G.nodes
          /\ \A n \in G.nodes : gene_categories[n] \in Categories
    /\ pc = "crash" => primary_status = "failed"

C2_Witness ==
    /\ Categorized
    /\ G.nodes # {}
    /\ perturbed_genes \ G.nodes # {}
    /\ TableUsable
    /\ \E i \in 1..Len(degs_df.rows) :
          /\ degs_df.rows[i].gene \notin G.nodes
          /\ degs_df.rows[i].log2FC = Num(2)

\* C3: a graph node that is not in the perturbed list is 'up' exactly when its
\* fold-change is present, not missing and > 1, 'down' exactly when it is
\* present, not missing and < -1, and 'other' in every remaining case.
C3_ExpressionCategories ==
    Categorized =>
        \A n \in G.nodes \ perturbed_genes :
            LET fc == TableFC(n)
            IN /\ gene_categories[n] = "up" <=> (~isna(fc) /\ fc[1] > 1)
               /\ gene_categories[n] = "down" <=> (~isna(fc) /\ fc[1] < -1)
               /\ gene_categories[n] = "other" <=>
                      (isna(fc) \/ (fc[1] >= -1 /\ fc[1] <= 1))

C3_Witness ==
    /\ Categorized
    /\ \E n \in G.nodes \ perturbed_genes :
          TableFC(n) = Num(1) /\ gene_categories[n] = "other"
    /\ \E n \in G.nodes \ perturbed_genes :
          TableFC(n) = Num(-2) /\ gene_categories[n] = "down"

\* C4: the fold-change map of visualize_network has an entry for a gene
\* exactly when the gene is a graph node whose last table row has a fold-change
\* that is not missing; the entry is that value, whatever the gene's category.
C4_FoldChangeMap ==
    AfterPrimary =>
        /\ DOMAIN fold_changes = {g \in G.nodes : ~isna(TableFC(g))}
        /\ \A g \in DOMAIN fold_changes : fold_changes[g] = TableFC(g)[1]

C4_Witness ==
    /\ AfterPrimary
    /\ \E g \in DOMAIN fold_changes :
          /\ gene_categories[g] = "perturbed"
          /\ fold_changes[g] > 1
          /\ \E i \in 1..Len(degs_df.rows) :
                /\ i < LastRow(g)
                /\ degs_df.rows[i].gene = g
                /\ degs_df.rows[i].log2FC # degs_df.rows[LastRow(g)].log2FC

\* C5: with at most 50 nodes every graph node is labeled; with more than 50
\* nodes every perturbed, up and down node is labeled.
C5_LabelSelection ==
    AfterPrimary =>
        /\ Cardinality(G.nodes) <= 50 => nodes_to_label = G.nodes
        /\ Cardinality(G.nodes) > 50 => Important \subseteq nodes_to_label

C5_Witness ==
    /\ AfterPrimary
    /\ Cardinality(G.nodes) > 50
    /\ \A c \in {"perturbed", "up", "down"} :
          \E n \in nodes_to_label : gene_categories[n] = c
    /\ nodes_to_label # G.nodes

C6_Applies == AfterPrimary /\ Cardinality(G.nodes) > 50 /\ TableUsable
C6_Key(i) ==
    LET fc == degs_df.rows[i].log2FC
    IN IF fc = NaN THEN -1 ELSE IF fc[1] < 0 THEN -fc[1] ELSE fc[1]
\* the table rows of graph members, and those of members not yet selected
C6_Members == {i \in 1..Len(degs_df.rows) : degs_df.rows[i].gene \in G.nodes}
C6_Unselected == {i \in C6_Members : degs_df.rows[i].gene \notin Important}
\* a row is among the 10 first of a set of rows however ties are ordered, and
\* a row is 11th or lower however ties are ordered
C6_AmongFirst(i, among) ==
    Cardinality({j \in among \ {i} : C6_Key(j) >= C6_Key(i)}) < 10
C6_Eleventh(i, among) ==
    Cardinality({j \in among \ {i} : C6_Key(j) > C6_Key(i)}) >= 10
\* can these rows be the 10 first of the members' rows in descending order
C6_IsHead(top) ==
    /\ top \subseteq C6_Members
    /\ Cardinality(top) = (IF Cardinality(C6_Members) < 10
                           THEN Cardinality(C6_Members) ELSE 10)
    /\ \A i \in top : \A j \in C6_Members \ top : C6_Key(i) >= C6_Key(j)

\* C6 as stated: with more than 50 nodes and a fold-change column, a gene that
\* ranks in the top 10 by absolute fold-change among the graph members not
\* already selected is labeled, and a node of category 'other' that ranks 11th
\* or lower among them is not.
C6_TopAmongUnselected ==
    C6_Applies =>
        /\ \A i \in C6_Unselected :
              (degs_df.rows[i].log2FC # NaN /\ C6_AmongFirst(i, C6_Unselected))
                  => degs_df.rows[i].gene \in nodes_to_label
        /\ \A n \in G.nodes :
              (/\ gene_categories[n] = "other"
               /\ \A i \in C6_Unselected :
                     degs_df.rows[i].gene = n => C6_Eleventh(i, C6_Unselected))
                  => n \notin nodes_to_label

\* C6 amended: the 10 rows are the first of ALL rows of graph members in
\* descending order of absolute fold-change (missing values last), rows of
\* already selected nodes included; the labeled set is the perturbed, up and
\* down nodes plus the genes of these rows, so a member with a row among them
\* is labeled and an 'other' node with no row among them is not.
C6_TopAmongMembers ==
    C6_Applies =>
        /\ C6_IsHead(top_fc_genes)
        /\ nodes_to_label =
               Important \cup {degs_df.rows[i].gene : i \in top_fc_genes}
        /\ \A i \in C6_Members :
              C6_AmongFirst(i, C6_Members)
                  => degs_df.rows[i].gene \in nodes_to_label
        /\ \A n \in G.nodes :
              (/\ gene_categories[n] = "other"
               /\ \A i \in C6_Members :
                     degs_df.rows[i].gene = n => C6_Eleventh(i, C6_Members))
                  => n \notin nodes_to_label

C6_Witness ==
    /\ C6_Applies
    /\ Cardinality(C6_Members) > 10
    /\ \E i \in top_fc_genes : degs_df.rows[i].gene \in Important
    /\ \E i \in top_fc_genes :
          /\ gene_categories[degs_df.rows[i].gene] = "other"
          /\ degs_df.rows[i].gene \in nodes_to_label
    /\ \E i \in C6_Members \ top_fc_genes :
          /\ gene_categories[degs_df.rows[i].gene] = "other"
          /\ C6_Eleventh(i, C6_Members)
          /\ degs_df.rows[i].gene \notin nodes_to_label

\* the fold-changes of the perturbed nodes that have one
C7_Observed ==
    {fold_changes[g] :
        g \in {n \in G.nodes : gene_categories[n] = "perturbed"}
                  \cap DOMAIN fold_changes}
C7_DomainOf(scale) ==
    /\ scale.vmin <= -1
    /\ scale.vmax >= 1
    /\ \A v \in C7_Observed : scale.vmin <= v /\ v <= scale.vmax
    /\ scale.vmin = -1 \/ scale.vmin \in C7_Observed
    /\ scale.vmax = 1 \/ scale.vmax \in C7_Observed

\* C7: a color scale built from the fold-changes of the perturbed genes, in
\* the primary and in the labeled view, has vmin = min(smallest value, -1) and
\* vmax = max(largest value, 1), so vmin <= -1 and vmax >= 1.
C7_ColorDomain ==
    /\ color_scale # <<>> => C7_Observed # {} /\ C7_DomainOf(color_scale[1])
    /\ labeled_scale # <<>> => C7_Observed # {} /\ C7_DomainOf(labeled_scale[1])

C7_Witness ==
    /\ color_scale # <<>>
    /\ labeled_scale # <<>>
    /\ \A v \in C7_Observed : v > 0
    /\ color_scale[1] = [vmin |-> -1, vmax |-> 2]
    /\ labeled_scale[1] = [vmin |-> -1, vmax |-> 2]

\* the table stage of a network with nodes ran to its end and writing the
\* file did not fail
C8_TableStageDone ==
    /\ pc \in {"close", "done"}
    /\ G.nodes # {}
    /\ labeled_status = "saved"
    /\ table_status # "OSError"

\* C8: the summary table has exactly one row for each perturbed, up or down
\* node and none for an 'other' node, for every category map; with every node
\* 'other' it is a table of zero rows.
C8_TableRows ==
    C8_TableStageDone =>
        /\ table_status = "saved"
        /\ {table[i].Gene : i \in 1..Len(table)} = Important
        /\ Len(table) = Cardinality(Important)

C9_LexicalOrder(a, b) ==
    \/ a = b
    \/ <<a, b>> \in {<<"down", "perturbed">>, <<"down", "up">>, <<"perturbed", "up">>}
C9_AnyKnown == \E i \in 1..Len(table) : table[i].log2FC # NaN
C9_CentralityAtLeast(a, b) ==
    a.Centrality.num * b.Centrality.den >= b.Centrality.num * a.Centrality.den

\* C9: the rows are ordered by category (order of the strings); inside a
\* category by non-increasing fold-change when some row of the table has a
\* fold-change, by non-increasing degree centrality otherwise; a row without a
\* fold-change carries 'NA' (NaN here) and is kept, inside its category.
C9_TableOrder ==
    table_status = "saved" =>
        /\ \A i, j \in 1..Len(table) :
              i < j =>
                /\ C9_LexicalOrder(table[i].Category, table[j].Category)
                /\ table[i].Category = table[j].Category =>
                      IF C9_AnyKnown
                      THEN (table[i].log2FC # NaN /\ table[j].log2FC # NaN)
                               => table[i].log2FC[1] >= table[j].log2FC[1]
                      ELSE C9_CentralityAtLeast(table[i], table[j])
        /\ \A i \in 1..Len(table) :
              /\ table[i].log2FC = NaN <=> table[i].Gene \notin DOMAIN fold_changes
              /\ table[i].Category = gene_categories[table[i].Gene]
        /\ \A n \in Important : \E i \in 1..Len(table) : table[i].Gene = n

C9_Witness ==
    /\ table_status = "saved"
    /\ \E i, j \in 1..Len(table) :
          /\ i < j
          /\ table[i].Category = table[j].Category
          /\ table[i].Gene > table[j].Gene
          /\ table[i].log2FC # NaN
          /\ table[j].log2FC = NaN

\* C10: the primary image is saved before the labeled view and the table are
\* attempted, and a failure of the labeled view or of the table is caught:
\* the run goes on to its end with the primary image saved.
C10_PrimarySavedFirst ==
    /\ (labeled_status # "not_run" \/ table_status # "not_run")
           => primary_status = "saved"
    /\ (labeled_status = "failed" \/ table_status \in {"KeyError", "OSError"})
           => pc \in {"close", "done"} /\ primary_status = "saved"
    /\ pc \in {"labeled", "table"} => primary_status = "saved"

C10_Witness ==
    /\ pc = "done"
    /\ labeled_status = "failed"
    /\ table_status = "not_run"
    /\ primary_status = "saved"

\* C11: after the layout step every graph node has exactly one coordinate,
\* whichever of the four algorithms was asked for; when the Kamada-Kawai or
\* the spectral computation fails, the coordinates come from the spring layout
\* called with the k, the iteration count and the seed of the default layout,
\* the warning is printed, and the run goes on to the drawing and the save.
C11_DefaultParams == <<[k |-> "0.3", iterations |-> 50, seed |-> 42]>>
C11_OwnFunction ==
    [spring |-> "spring_layout", kamada_kawai |-> "kamada_kawai_layout",
     circular |-> "circular_layout", spectral |-> "spectral_layout"]
C11_FellBack ==
    /\ args_layout \in {"kamada_kawai", "spectral"}
    /\ pos.fn # C11_OwnFunction[args_layout]
C11_FallbackWarning ==
    IF args_layout = "kamada_kawai"
    THEN "Kamada-Kawai layout failed, falling back to spring layout"
    ELSE "Spectral layout failed, falling back to spring layout"
C11_LayoutFallback ==
    AfterPrimary =>
        /\ pos.nodes = G.nodes
        /\ args_layout \in {"spring", "circular"} =>
               pos.fn = C11_OwnFunction[args_layout]
        /\ args_layout = "spring" => pos.params = C11_DefaultParams
        /\ C11_FellBack =>
               /\ pos.fn = "spring_layout"
               /\ pos.params = C11_DefaultParams
               /\ C11_FallbackWarning \in warnings
               /\ DOMAIN label_texts = nodes_to_label
               /\ pc = "crash" => primary_status = "failed"
        /\ ~C11_FellBack => C11_FallbackWarning \notin warnings
C11_Witness ==
    /\ pc = "done"
    /\ C11_FellBack
    /\ args_layout = "spectral"
    /\ Cardinality(pos.nodes) = 3
    /\ labeled_status = "saved"

\* the run of PerturbViz has loaded its expression table
C12_TableLoaded == pc = "categorize" \/ Categorized
\* the run of the generator is past load_deg_genes
C12_GenTableLoaded == pc \in {"gen_retrieve", "gen_save", "gen_done", "gen_exit"}
C12_BadNetworkFile == network_file.format \in {"unreadable", "one_column"}

C13_Retrieved ==
    /\ pc \in {"gen_save", "gen_done", "gen_exit"}
    /\ response.raises \/ response.body # ""
C13_RetrievalFailure ==
    \/ response.raises
    \/ response.status # 200
    \/ response.body = "interactions" /\ response.rows = <<>>

\* C13: in the network generator a retrieval call that raises, returns a
\* status other than 200 or returns no interaction ends the run with exit
\* status 1 and nothing is written to the output file; the output file is
\* written only with the non-empty edge list of a successful retrieval.
C13_RetrievalFailureAborts ==
    /\ (C13_Retrieved /\ C13_RetrievalFailure) =>
           /\ pc = "gen_exit"
           /\ output_file = <<>>
    /\ output_file # <<>> =>
           /\ C13_Retrieved /\ ~C13_RetrievalFailure
           /\ response.body = "interactions"
           /\ output_file = <<response.rows>>
           /\ pc = "gen_done"
C13_Witness ==
    /\ pc = "gen_exit"
    /\ ~response.raises /\ response.status = 200
    /\ response.body = "interactions" /\ response.rows = <<>>
    /\ perturbed_genes = {1, 2}
    /\ deg_genes.up # {}

\* the table was given but could not be read, or has no column named log2FC,
\* log2FoldChange or with 'log2' and 'fold' in its name
C14_NoFoldChangeColumn ==
    /\ degs_file.given
    /\ ~degs_file.readable \/ degs_file.column \in {"", "baseMean"}

\* C14: with an expression table that has no identifiable fold-change column,
\* or that failed to load and was replaced by the empty table, the nodes are
\* still classified: every graph node is 'perturbed' (the nodes of the
\* perturbed list) or 'other', none is 'up' or 'down', and the fold-change map
\* of the views is empty.
C14_NoExpressionCategories ==
    (Categorized /\ C14_NoFoldChangeColumn) =>
        /\ DOMAIN gene_categories = G.nodes
        /\ \A n \in G.nodes :
               gene_categories[n] =
                   IF n \in perturbed_genes THEN "perturbed" ELSE "other"
        /\ AfterPrimary => fold_changes = <<>>
C14_Witness ==
    /\ pc = "done"
    /\ degs_file.readable /\ degs_file.column = "baseMean"
    /\ degs_file.rows = <<[gene |-> 1, log2FC |-> <<2>>]>>
    /\ perturbed_genes = {2}
    /\ G.nodes = {1, 2, 3}
    /\ gene_categories[1] = "other"

\* the label text the claim gives to node n in a view with the texts `texts`
C15_TextAsClaimed(texts, n) ==
    /\ texts[n].id = n
    /\ IF n \in DOMAIN fold_changes
       THEN /\ texts[n].value = <<100 * (IF fold_changes[n] < 0
                                         THEN -fold_changes[n]
                                         ELSE fold_changes[n])>>
            /\ texts[n].direction = "up_arrow" <=> fold_changes[n] > 0
            /\ texts[n].direction = "down_arrow" <=> fold_changes[n] < 0
       ELSE /\ texts[n].value = <<>>
            /\ texts[n].direction = ""

\* C15: the text of a label is the gene identifier alone for a node without
\* a fold-change entry; otherwise it is the identifier, a direction glyph and
\* the absolute fold-change with two decimals, the glyph being the up arrow
\* exactly when the fold-change is positive and the down arrow exactly when
\* it is negative.  (Violated by the code for a fold-change of 0.)
C15_LabelText ==
    AfterPrimary =>
        /\ \A n \in DOMAIN label_texts : C15_TextAsClaimed(label_texts, n)
        /\ \A n \in DOMAIN labeled_texts : C15_TextAsClaimed(labeled_texts, n)

\* the perturbed nodes with a fold-change entry
C16_WithEntry == PerturbedNodes \cap DOMAIN fold_changes
C16_PerturbedCalls ==
    {i \in DOMAIN draw_calls : draw_calls[i].category = "perturbed"}

\* C16: the primary view has a colorbar exactly when some perturbed node has
\* a fold-change entry; when none has, all perturbed nodes are drawn in one
\* call in the flat color purple and there is no colorbar.
C16_ColorbarIffEntry ==
    AfterPrimary =>
        /\ color_scale # <<>> <=> C16_WithEntry # {}
        /\ C16_WithEntry = {} =>
               /\ color_scale = <<>>
               /\ \A i \in C16_PerturbedCalls : draw_calls[i].color = "purple"
               /\ \E i \in C16_PerturbedCalls :
                      draw_calls[i].nodelist = PerturbedNodes
        /\ C16_WithEntry # {} =>
               \A i \in C16_PerturbedCalls : draw_calls[i].color = "RdBu_r"
C16_Witness ==
    /\ pc = "done"
    /\ PerturbedNodes = {1}
    /\ DOMAIN fold_changes = {2}
    /\ color_scale = <<>>
    /\ \E i \in C16_PerturbedCalls : draw_calls[i].color = "purple"

\* C17: in the primary view every graph node is in the node list of exactly
\* one node-drawing call, also when only some of the perturbed nodes have a
\* fold-change entry.  (Violated by the code: in that case the perturbed nodes
\* without an entry are in no call.)
C17_DrawnExactlyOnce ==
    AfterPrimary =>
        /\ \A n \in G.nodes :
               Cardinality({i \in DOMAIN draw_calls :
                               n \in draw_calls[i].nodelist}) = 1
        /\ \A i \in DOMAIN draw_calls : draw_calls[i].nodelist \subseteq G.nodes

\* C18: create_gene_table is started only after the labeled image has been
\* saved: once the labeled view has raised before its save, the table stage
\* is never entered and no table is written, while the primary image stays
\* saved.
C18_TableAfterLabeledSave ==
    /\ (pc = "table" \/ table_status # "not_run" \/ table # <<>>)
           => labeled_status = "saved"
    /\ labeled_status = "failed" =>
           /\ pc # "table"
           /\ table_status = "not_run"
           /\ table = <<>>
           /\ primary_status = "saved"
C18_Witness ==
    /\ pc = "done"
    /\ labeled_status = "failed"
    /\ Important # {}
    /\ table = <<>>
    /\ "Warning: Could not create labeled network" \in warnings

====
